---- MODULE Spec2Model ----
(***************************************************************************)
(* A model of house_stat.py: the incremental CSV writer save_to_csv, the   *)
(* orchestrator main, and the table parsers.                               *)
(***************************************************************************)
EXTENDS Integers, Sequences, FiniteSets, TLC

VARIABLES
    file,        \* the CSV store save_to_csv works on: [exists, lines]
    key_column,  \* the columns that make the store's composite key
    last,        \* the last save_to_csv call: store before, arguments, outcome
    pc,          \* main: where the run is
    step,        \* main: the strategy or store the run is at (1..5)
    fetched,     \* main: whether fetch_html returned the document
    parsed,      \* main: the strategies invoked so far
    saved,       \* main: the stores save_to_csv was invoked on so far
    year_month,  \* main: the period the run extracted
    dfs,         \* main: the record set of each strategy
    rets,        \* main: (new, skipped) as each save_to_csv returned it
    stores,      \* main: the five CSV stores
    start,       \* main: the five CSV stores as the run found them
    sfail,       \* main: the strategies that met an exception
    iofail,      \* main: the stores whose read or write failed
    doc,         \* parsers: the part of the document a strategy reads
    result,      \* parsers: what the strategy returned
    attempt,     \* fetch_html: the loop variable of the retry loop
    fstate,      \* fetch_html: in the loop, returned, or raised
    outcomes,    \* fetch_html: what each request so far came to
    slept,       \* fetch_html: the seconds spent in time.sleep
    html         \* fetch_html: the text it returned

saveVars == <<file, key_column, last>>
mainVars == <<pc, step, fetched, parsed, saved, year_month, dfs, rets, stores,
              start, sfail, iofail>>
parseVars == <<doc, result>>
fetchVars == <<attempt, fstate, outcomes, slept, html>>
vars == <<saveVars, mainVars, parseVars, fetchVars>>

----------------------------------------------------------------------------
(* Bounds of the model *)

\* most data rows a store holds
MaxStore == 4
\* most records of one record set
MaxRecords == 2

(* The values records are built from.  A name is the text of a table cell   *)
(* after strip(): "" is a blank cell.                                       *)
Periods == {"2025-11", "2025-12"}
Names == {"", "A"}
Vals == {1}

\* A row of a DataFrame the parsers build: the period, the natural key, a count.
Records == [period : Periods, name : Names, val : Vals]

RECURSIVE SeqsUpTo(_, _)
SeqsUpTo(S, n) ==
    IF n = 0 THEN {<<>>}
    ELSE LET shorter == SeqsUpTo(S, n - 1)
         IN shorter \cup {Append(s, x) : s \in {t \in shorter : Len(t) = n - 1}, x \in S}

\* The record sets of one run: every record carries the run's year_month.
RecordSets ==
    {df \in SeqsUpTo(Records, MaxRecords) :
        \A i, j \in 1..Len(df) : df[i].period = df[j].period}

----------------------------------------------------------------------------
(* CSV text *)

\* The missing value pandas reads an empty field as (NaN): equal to no text.
NA == "<NA>"

\* str(int) as DataFrame.to_csv writes a count.
IntText(n) == <<"0", "1", "2", "3", "4", "5", "6", "7", "8", "9">>[n + 1]

\* The header line DataFrame.to_csv writes: the column names.
HeaderLine == <<"ym", "name", "count">>

\* DataFrame.to_csv, one data line per record: text fields as they are.
ToCsvLine(r) == <<r.period, r.name, IntText(r.val)>>

ToCsvLines(df) == [i \in 1..Len(df) |-> ToCsvLine(df[i])]

\* pd.read_csv on one field: the empty field is a missing value.
ReadField(s) == IF s = "" THEN NA ELSE s

\* pd.read_csv: the first line names the columns, the others are the rows.
ReadCsv(f) ==
    LET body == Tail(f.lines)
    IN [i \in 1..Len(body) |-> [period |-> ReadField(body[i][1]),
                                 name |-> ReadField(body[i][2]),
                                 val |-> body[i][3]]]

NoFile == [exists |-> FALSE, lines |-> <<>>]

DataRows(f) == IF f.exists /\ f.lines # <<>> THEN Tail(f.lines) ELSE <<>>

----------------------------------------------------------------------------
(* save_to_csv *)

\* key_column of the five calls in main: ['年月', '经纪机构'], ['年月', '区县'],
\* ['年月', '面积区间'], ['日期'], ['月份'].
KEY_COLUMNS == <<{"period", "name"}, {"period", "name"}, {"period", "name"},
                 {"period"}, {"period"}>>

\* The composite key of a row: its values in the key columns.
KeyOf(r, kc) == [c \in kc |-> r[c]]

\* DataFrame.merge refuses key columns of text on one side and numbers on the
\* other: a column read_csv found only missing values in is float64.
MergeRaises(df, existing, kc) ==
    /\ Len(df) > 0
    /\ Len(existing) > 0
    /\ \E c \in kc : \A j \in 1..Len(existing) : existing[j][c] = NA

\* len(df.merge(existing_df, on=key_column, how='inner')): the matching pairs.
Duplicates(df, existing, kc) ==
    Cardinality({p \in (1..Len(df)) \X (1..Len(existing)) :
                    KeyOf(df[p[1]], kc) = KeyOf(existing[p[2]], kc)})

IsNew(r, existing, kc) ==
    \A j \in 1..Len(existing) : KeyOf(existing[j], kc) # KeyOf(r, kc)

\* df[~df.set_index(key_column).index.isin(existing_df.set_index(key_column).index)]
NewData(df, existing, kc) == SelectSeq(df, LAMBDA r : IsNew(r, existing, kc))

\* df.to_csv(csv_file, index=False)
CreateCsv(df) ==
    [exists |-> TRUE, lines |-> <<HeaderLine>> \o ToCsvLines(df)]

\* AppendCsv with mode='a' and header=False left out: the file is rewritten.
AppendCsvRewrites(f, new_data) == CreateCsv(new_data)

\* new_data.to_csv(csv_file, mode='a', header=False, index=False)
AppendCsv(f, new_data) ==
    [exists |-> TRUE, lines |-> f.lines \o ToCsvLines(new_data)]

\* What the store's I/O does during one call: it works, the read fails, or the
\* write fails, before the file is opened or after k whole lines.
IOs ==
    {[kind |-> "ok", opened |-> TRUE, k |-> 0],
     [kind |-> "read_fail", opened |-> FALSE, k |-> 0]}
    \cup {[kind |-> "write_fail", opened |-> FALSE, k |-> 0]}
    \cup [kind : {"write_fail"}, opened : {TRUE}, k : 0..(MaxRecords - 1)]

Result(f, n, d, raised) == [file |-> f, ret |-> <<n, d>>, raised |-> raised]

\* The body of save_to_csv when the file exists.
SaveExisting(df, f, kc, io) ==
    IF io.kind = "read_fail" THEN Result(f, 0, 0, TRUE)
    ELSE
    LET existing == ReadCsv(f)
    IN  IF MergeRaises(df, existing, kc) THEN Result(f, 0, 0, TRUE)
        ELSE
        LET duplicates == Duplicates(df, existing, kc)
            new_data == NewData(df, existing, kc)
        IN  IF new_data # <<>>
            THEN IF io.kind = "write_fail"
                 THEN Result(IF io.opened
                             THEN AppendCsv(f, SubSeq(new_data, 1, io.k))
                             ELSE f, 0, 0, TRUE)
                 ELSE Result(AppendCsv(f, new_data), Len(new_data), duplicates, FALSE)
            ELSE Result(f, 0, duplicates, FALSE)

\* The body of save_to_csv when the file does not exist.
SaveCreate(df, f, io) ==
    IF io.kind = "write_fail"
    THEN Result(IF io.opened THEN CreateCsv(SubSeq(df, 1, io.k)) ELSE f, 0, 0, TRUE)
    ELSE Result(CreateCsv(df), Len(df), 0, FALSE)

\* save_to_csv(df, csv_file, key_column, logger)
SaveToCsv(df, f, kc, io) ==
    IF df = <<>> THEN Result(f, 0, 0, FALSE)
    ELSE IF f.exists THEN SaveExisting(df, f, kc, io)
    ELSE SaveCreate(df, f, io)

\* An I/O outcome the call can meet: a read needs the file, a partial write
\* is shorter than the write.
IOPossible(df, f, kc, io) ==
    /\ io.kind = "read_fail" => f.exists /\ df # <<>>
    /\ io.kind = "write_fail" =>
          /\ df # <<>>
          /\ io.k < Len(df)
          /\ f.exists => /\ ~MergeRaises(df, ReadCsv(f), kc)
                         /\ io.k < Len(NewData(df, ReadCsv(f), kc))

NoCall == [called |-> FALSE, pre |-> NoFile, df |-> <<>>, ret |-> <<0, 0>>,
           io |-> "ok", raised |-> FALSE]

\* One run's call of save_to_csv on the store.
Save(df, io) ==
    /\ IOPossible(df, file, key_column, io)
    /\ Len(DataRows(file)) + Len(df) <= MaxStore
    /\ LET r == SaveToCsv(df, file, key_column, io)
       IN /\ file' = r.file
          /\ last' = [called |-> TRUE, pre |-> file, df |-> df, ret |-> r.ret,
                      io |-> io.kind, raised |-> r.raised]
    /\ UNCHANGED <<key_column, mainVars, parseVars, fetchVars>>

----------------------------------------------------------------------------
(* main *)

Strategies == 1..5

NoStores == [i \in Strategies |-> NoFile]
NoDfs == [i \in Strategies |-> <<>>]
NoRets == [i \in Strategies |-> <<0, 0>>]

MainIdle ==
    /\ pc = "idle" /\ step = 0 /\ fetched = FALSE /\ year_month = ""
    /\ parsed = {} /\ saved = {}
    /\ dfs = NoDfs /\ rets = NoRets
    /\ stores = NoStores /\ start = NoStores
    /\ sfail = {} /\ iofail = {}

SaveIdle ==
    /\ file = NoFile
    /\ key_column = KEY_COLUMNS[1]
    /\ last = NoCall

NoDoc == [kind |-> "none"]
NoResult == [applied |-> FALSE]

ParseIdle == doc = NoDoc /\ result = NoResult

NoHtml == "None"

\* fetch_html as it is entered: the first iteration of the loop is next.
FetchIdle ==
    /\ attempt = 0 /\ fstate = "loop" /\ outcomes = <<>> /\ slept = 0
    /\ html = NoHtml

\* The stores under save_to_csv: the key columns are one of main's.
Init ==
    /\ file = NoFile
    /\ key_column \in {KEY_COLUMNS[i] : i \in Strategies}
    /\ last = NoCall
    /\ MainIdle
    /\ ParseIdle
    /\ FetchIdle

Next == \E df \in RecordSets, io \in IOs : Save(df, io)

Spec == Init /\ [][Next]_vars

\* main, lines 593-596: fetch_html returns the document, or raises after its
\* retries and main logs and raises again.
MainFetch(ok, ym) ==
    /\ pc = "idle"
    /\ fetched' = ok
    /\ IF ok
       THEN pc' = "parse" /\ step' = 1 /\ year_month' = ym
       ELSE pc' = "aborted" /\ UNCHANGED <<step, year_month>>
    /\ UNCHANGED <<parsed, saved, dfs, rets, stores, start, sfail, iofail, saveVars,
                   parseVars, fetchVars>>

\* What a strategy hands back: its except clause returns pd.DataFrame().
StrategyResult(raises, out) == IF raises THEN <<>> ELSE out

\* The record sets a strategy can extract from the document of the run.
StrategyOutputs(ym) == {<<>>, <<[period |-> ym, name |-> "A", val |-> 1]>>}

\* main, lines 606-610: the five parse_* calls, one after the other.
MainParse(raises, out) ==
    /\ pc = "parse"
    /\ dfs' = [dfs EXCEPT ![step] = StrategyResult(raises, out)]
    /\ parsed' = parsed \cup {step}
    /\ sfail' = IF raises THEN sfail \cup {step} ELSE sfail
    /\ IF step = 5 THEN pc' = "save" /\ step' = 1
                   ELSE pc' = pc /\ step' = step + 1
    /\ UNCHANGED <<fetched, saved, year_month, rets, stores, start, iofail, saveVars,
                   parseVars, fetchVars>>

\* save_to_csv's except clause as a mistake would have it: the exception goes
\* on to main, which logs it and raises.
PcAfterSaveRaises(i, raised) ==
    IF raised THEN "aborted" ELSE IF i = 5 THEN "done" ELSE "save"

\* Where main goes on after save_to_csv number i: the except clause of
\* save_to_csv returns (0, 0), so main goes on to the next store.
PcAfterSave(i, raised) == IF i = 5 THEN "done" ELSE "save"

\* main, lines 617-654: the five save_to_csv calls, one after the other.
MainSave(io) ==
    /\ pc = "save"
    /\ IOPossible(dfs[step], stores[step], KEY_COLUMNS[step], io)
    /\ LET r == SaveToCsv(dfs[step], stores[step], KEY_COLUMNS[step], io)
       IN /\ stores' = [stores EXCEPT ![step] = r.file]
          /\ rets' = [rets EXCEPT ![step] = r.ret]
          /\ pc' = PcAfterSave(step, r.raised)
    /\ saved' = saved \cup {step}
    /\ iofail' = IF io.kind # "ok" THEN iofail \cup {step} ELSE iofail
    /\ step' = IF step = 5 THEN step ELSE step + 1
    /\ UNCHANGED <<fetched, parsed, year_month, dfs, start, sfail, saveVars, parseVars, fetchVars>>

\* The stores as earlier runs left them: none yet, or each holding the row
\* of an earlier period.
EarlierStores ==
    {NoStores,
     [i \in Strategies |->
        CreateCsv(<<[period |-> "2025-11", name |-> "A", val |-> 1]>>)]}

InitMain ==
    /\ SaveIdle
    /\ ParseIdle
    /\ FetchIdle
    /\ pc = "idle" /\ step = 0 /\ fetched = FALSE /\ year_month = ""
    /\ parsed = {} /\ saved = {}
    /\ dfs = NoDfs /\ rets = NoRets
    /\ stores \in EarlierStores /\ start = stores
    /\ sfail = {} /\ iofail = {}

NextMain ==
    \/ \E ok \in BOOLEAN, ym \in Periods : MainFetch(ok, ym)
    \/ \E raises \in BOOLEAN, out \in StrategyOutputs(year_month) :
          MainParse(raises, out)
    \/ \E io \in IOs : MainSave(io)

SpecMain == InitMain /\ [][NextMain]_vars

----------------------------------------------------------------------------
(* fetch_html *)

\* config.MAX_RETRIES and config.RETRY_DELAY (seconds)
MAX_RETRIES == 3
RETRY_DELAY == 5

\* What requests.get and raise_for_status come to: the text of the page, or
\* one of the exceptions under requests.RequestException.
Htmls == {"page1", "page2"}
RequestExceptions == {"Timeout", "ConnectionError", "HTTPError"}
Outcomes ==
    [ok : {TRUE}, text : Htmls] \cup [ok : {FALSE}, error : RequestExceptions]

\* time.sleep after every failed request
SleepsAlways(a) == TRUE

\* `if attempt < config.MAX_RETRIES - 1`
SleepsBeforeRetry(a) == a < MAX_RETRIES - 1

\* One iteration of `for attempt in range(config.MAX_RETRIES)`: the request
\* returns the text and fetch_html returns it; or it raises, and fetch_html
\* sleeps and goes to the next iteration, or raises again at the last one.
FetchAttempt(outcome) ==
    /\ pc = "idle" /\ fstate = "loop"
    /\ attempt < MAX_RETRIES
    /\ outcomes' = Append(outcomes, outcome)
    /\ IF outcome.ok
       THEN /\ fstate' = "returned"
            /\ html' = outcome.text
            /\ UNCHANGED <<attempt, slept>>
       ELSE IF SleepsBeforeRetry(attempt)
       THEN /\ slept' = slept + RETRY_DELAY
            /\ attempt' = attempt + 1
            /\ UNCHANGED <<fstate, html>>
       ELSE /\ fstate' = "raised"
            /\ UNCHANGED <<attempt, slept, html>>
    /\ UNCHANGED <<saveVars, mainVars, parseVars>>

\* main, lines 593-596 and 669-671, once fetch_html is over: it goes on with
\* the text, or logs the exception and raises it.
MainAfterFetch(ym) ==
    /\ fstate \in {"returned", "raised"}
    /\ MainFetch(fstate = "returned", ym)

InitFetch == InitMain

NextFetch ==
    \/ \E outcome \in Outcomes : FetchAttempt(outcome)
    \/ \E ym \in Periods : MainAfterFetch(ym)

\* A request ends within config.TIMEOUT or with an exception, and a sleep
\* ends: the loop always takes its next step.
SpecFetch ==
    InitFetch /\ [][NextFetch]_vars
    /\ WF_vars(\E outcome \in Outcomes : FetchAttempt(outcome))

----------------------------------------------------------------------------
(* Cell text.  The text of a cell is a sequence of characters; a phrase the *)
(* code searches for as a whole is one character of the model:              *)
(*   "SIGN_COUNT" 网上签约套数    "SIGN_AREA" 网上签约面积                      *)
(*   "RES_COUNT"  住宅签约套数    "RES_AREA"  住宅签约面积                      *)
(*   "MONTH" 2025年12月存量房网上签约   "DAY" 2026/1/5存量房网上签约             *)
(*   "u" the unit m²                                                        *)

DigitChars == <<"0", "1", "2", "3", "4", "5", "6", "7", "8", "9">>

IsDigitChar(c) == \E d \in 1..10 : DigitChars[d] = c

DigitValue(c) == (CHOOSE d \in 1..10 : DigitChars[d] = c) - 1

\* str.strip(): the text without its leading and trailing blanks.
RECURSIVE LStrip(_)
LStrip(t) == IF t # <<>> /\ Head(t) = " " THEN LStrip(Tail(t)) ELSE t

RECURSIVE RStrip(_)
RStrip(t) ==
    IF t # <<>> /\ t[Len(t)] = " " THEN RStrip(SubSeq(t, 1, Len(t) - 1)) ELSE t

Strip(t) == RStrip(LStrip(t))

\* str.replace(c, ''): the text without the character c.
Remove(t, c) == SelectSeq(t, LAMBDA x : x # c)

\* str.isdigit(): not empty, digits only.
IsDigit(t) == t # <<>> /\ \A i \in 1..Len(t) : IsDigitChar(t[i])

\* int(t) of a text of digits.
RECURSIVE IntOf(_)
IntOf(t) ==
    IF t = <<>> THEN 0
    ELSE 10 * IntOf(SubSeq(t, 1, Len(t) - 1)) + DigitValue(t[Len(t)])

\* `pattern in label`: the phrase occurs in the text.
Contains(t, phrase) == \E i \in 1..Len(t) : t[i] = phrase

\* '住宅' in label: the phrases that hold the word.
ContainsRes(t) ==
    \E i \in 1..Len(t) : t[i] \in {"RES", "RES_COUNT", "RES_AREA"}

\* float(t) of Python for a text of digits, points, "inf" and other
\* characters: whether it parses, and the value in hundredths.  The texts of
\* the model carry at most two decimals.
IsFloatText(t) ==
    /\ \A i \in 1..Len(t) : IsDigitChar(t[i]) \/ t[i] = "."
    /\ \E i \in 1..Len(t) : IsDigitChar(t[i])
    /\ Cardinality({i \in 1..Len(t) : t[i] = "."}) <= 1

PointAt(t) == IF Contains(t, ".") THEN CHOOSE i \in 1..Len(t) : t[i] = "." ELSE Len(t) + 1

Hundredths(t) ==
    LET p == PointAt(t)
        whole == SubSeq(t, 1, p - 1)
        frac == SubSeq(t, p + 1, Len(t))
        two == SubSeq(frac \o <<"0", "0">>, 1, 2)
    IN 100 * IntOf(whole) + IntOf(two)

InfText == <<"i", "n", "f">>

\* float(t): ok is FALSE where Python raises ValueError.
ParseFloat(t) ==
    LET x == Strip(t)
    IN IF x = InfText THEN [ok |-> TRUE, inf |-> TRUE, v |-> 0]
       ELSE IF IsFloatText(x) THEN [ok |-> TRUE, inf |-> FALSE, v |-> Hundredths(x)]
       ELSE [ok |-> FALSE, inf |-> FALSE, v |-> 0]

\* `float(s) if s else 0`
FloatOrZero(t) ==
    IF t = <<>> THEN [ok |-> TRUE, inf |-> FALSE, v |-> 0] ELSE ParseFloat(t)

Number(x) == [inf |-> x.inf, v |-> x.v]

----------------------------------------------------------------------------
(* parse_agency_data *)

\* most data rows of the agency table
MaxAgencyRows == 2

T(c) == <<c>>

\* The cells of the agency table's rows, as the page can hold them.
AgencySeqTexts == {<<>>, T("0"), T("1"), <<" ", "2">>, T("x")}
AgencyNameTexts == {<<>>, T("A"), T("B")}
AgencyCountTexts == {T("5"), T("x")}

\* A caption row of one cell, the rows of a sequence number and a name, and
\* a row whose count is no number.
AgencyRows ==
    {<<T("x")>>}
    \cup {<<q, n, T("5"), T("3")>> : q \in AgencySeqTexts, n \in AgencyNameTexts}
    \cup {<<T("1"), T("A"), c, c>> : c \in AgencyCountTexts}

AgencyHeader == <<T("x"), T("x"), T("x"), T("x")>>

AgencyDocs ==
    {[kind |-> "agency", found |-> FALSE, rows |-> <<>>, ym |-> "2025-12"]}
    \cup {[kind |-> "agency", found |-> TRUE, rows |-> <<AgencyHeader>> \o rs,
           ym |-> "2025-12"] : rs \in SeqsUpTo(AgencyRows, MaxAgencyRows)}

\* int(sign_count) if sign_count.isdigit() else 0
CountOrZero(t) == IF IsDigit(t) THEN IntOf(t) ELSE 0

\* Line 150: a row is kept unless its sequence number is empty or not digits.
AgencyRowAccepted(seq_num) == seq_num # <<>> /\ IsDigit(seq_num)

\* The loop body of lines 141-159 for one row: the records it adds.
AgencyRow(cols, ym) ==
    IF Len(cols) >= 4
    THEN LET seq_num == Strip(cols[1])
             agency_name == Strip(cols[2])
             sign_count == Strip(cols[3])
             refund_count == Strip(cols[4])
         IN IF AgencyRowAccepted(seq_num)
            THEN <<[ym |-> ym, seq |-> IntOf(seq_num), agency |-> agency_name,
                    sign |-> CountOrZero(sign_count),
                    refund |-> CountOrZero(refund_count)]>>
            ELSE <<>>
    ELSE <<>>

RECURSIVE AgencyRowsLoop(_, _)
AgencyRowsLoop(rows, ym) ==
    IF rows = <<>> THEN <<>>
    ELSE AgencyRow(Head(rows), ym) \o AgencyRowsLoop(Tail(rows), ym)

\* parse_agency_data(soup, year_month, logger)
parse_agency_data(d) ==
    IF ~d.found THEN <<>>
    ELSE AgencyRowsLoop(Tail(d.rows), d.ym)

ParseAgency ==
    /\ doc.kind = "agency" /\ ~result.applied
    /\ result' = [applied |-> TRUE, records |-> parse_agency_data(doc)]
    /\ UNCHANGED <<doc, saveVars, mainVars, fetchVars>>

----------------------------------------------------------------------------
(* parse_district_data and parse_area_data *)

\* most data columns of one block of a transposed table
MaxCols == 2

Txt2(a, b) == <<a, b>>
Txt3(a, b, c) == <<a, b, c>>

\* The cells of the count and area rows, as the page can hold them.
CountTexts == {T("7"), Txt3("1", ",", "2"), T("x"), <<>>, InfText}
AreaTexts == {Txt3("1", ".", "5"), Txt2("9", "u")}

RowLabel == T("x")

\* A column of a transposed table: its count cell and its area cell.
Columns == [count : CountTexts, area : AreaTexts]

\* How long the three rows of a block are: all as long as the columns, or
\* one of them a cell shorter.
Shapes == {"full", "short_names", "short_counts", "short_areas"}

Shorter(cells, short) ==
    IF short /\ cells # <<>> THEN SubSeq(cells, 1, Len(cells) - 1) ELSE cells

\* The names row, the counts row and the areas row of a block, each after
\* its label cell.
BlockOf(names, cols, shape) ==
    <<<<RowLabel>> \o Shorter([i \in 1..Len(cols) |-> names[i]], shape = "short_names"),
      <<RowLabel>> \o Shorter([i \in 1..Len(cols) |-> cols[i].count], shape = "short_counts"),
      <<RowLabel>> \o Shorter([i \in 1..Len(cols) |-> cols[i].area], shape = "short_areas")>>

Block(names) ==
    {BlockOf(names, cols, shape) : cols \in SeqsUpTo(Columns, MaxCols), shape \in Shapes}

\* The second block of the district table: empty, one column, two columns.
SecondBlocks ==
    {<<<<RowLabel>>, <<RowLabel>>, <<RowLabel>>>>,
     <<<<RowLabel, T("C")>>, <<RowLabel, T("3")>>, <<RowLabel, Txt3("2", ".", "5")>>>>,
     <<<<RowLabel, T("C"), T("D")>>, <<RowLabel, T("x"), T("4")>>,
       <<RowLabel, Txt3("2", ".", "5"), T("6")>>>>}

FirstNames == <<T("A"), T("B"), T("E")>>

\* A block of one well-formed column: the tables of too few rows are cut
\* from it.
OneColumn == BlockOf(FirstNames, <<[count |-> T("7"), area |-> Txt3("1", ".", "5")]>>, "full")

DistrictDocs ==
    {[kind |-> "district", found |-> FALSE, rows |-> <<>>, ym |-> "2025-12"]}
    \cup {[kind |-> "district", found |-> TRUE, rows |-> b1 \o b2, ym |-> "2025-12"] :
            b1 \in Block(FirstNames), b2 \in SecondBlocks}
    \cup {[kind |-> "district", found |-> TRUE, rows |-> OneColumn \o SubSeq(b2, 1, 2),
           ym |-> "2025-12"] : b2 \in SecondBlocks}

AreaDocs ==
    {[kind |-> "area", found |-> FALSE, rows |-> <<>>, ym |-> "2025-12"]}
    \cup {[kind |-> "area", found |-> TRUE, rows |-> b, ym |-> "2025-12"] :
            b \in Block(FirstNames)}
    \cup {[kind |-> "area", found |-> TRUE, rows |-> SubSeq(OneColumn, 1, 2),
           ym |-> "2025-12"]}

\* [td.get_text(strip=True) for td in row[1:]]
DataCells(row) ==
    IF row = <<>> THEN <<>> ELSE [i \in 1..(Len(row) - 1) |-> Strip(row[i + 1])]

\* The try block of lines 244-256 (and 324-337) for column i: a record, a
\* skipped column (ValueError), or an exception the inner except clause does
\* not catch (OverflowError of int(inf)), which the outer one turns into an
\* empty result.
TransposeColumn(name, count_text, area_text, ym) ==
    LET count_val == FloatOrZero(Strip(Remove(count_text, ",")))
        area_val == FloatOrZero(Strip(Remove(area_text, ",")))
    IN IF ~count_val.ok \/ ~area_val.ok THEN [kind |-> "skip"]
       ELSE IF count_val.inf THEN [kind |-> "fatal"]
       ELSE [kind |-> "record",
             record |-> [ym |-> ym, name |-> name, count |-> count_val.v,
                         area |-> Number(area_val)]]

\* The transposing loop of lines 242-259 (and 322-340).
TransposeColumns(names, counts, areas, ym) ==
    [i \in {j \in 1..Len(names) : j <= Len(counts) /\ j <= Len(areas)} |->
        TransposeColumn(names[i], counts[i], areas[i], ym)]

RECURSIVE RecordsOf(_, _)
RecordsOf(cols, n) ==
    IF n = 0 THEN <<>>
    ELSE RecordsOf(cols, n - 1)
         \o (IF n \in DOMAIN cols /\ cols[n].kind = "record"
             THEN <<cols[n].record>> ELSE <<>>)

Transpose(names, counts, areas, ym) ==
    LET cols == TransposeColumns(names, counts, areas, ym)
    IN IF \E i \in DOMAIN cols : cols[i].kind = "fatal" THEN <<>>
       ELSE RecordsOf(cols, Len(names))

\* parse_district_data reading the first block alone, as parse_area_data
\* reads its table.
parse_district_data_one_block(d) ==
    IF ~d.found \/ Len(d.rows) < 6 THEN <<>>
    ELSE Transpose(DataCells(d.rows[1]), DataCells(d.rows[2]),
                   DataCells(d.rows[3]), d.ym)

\* parse_district_data(soup, year_month, logger)
parse_district_data(d) ==
    IF ~d.found \/ Len(d.rows) < 6 THEN <<>>
    ELSE Transpose(DataCells(d.rows[1]) \o DataCells(d.rows[4]),
                   DataCells(d.rows[2]) \o DataCells(d.rows[5]),
                   DataCells(d.rows[3]) \o DataCells(d.rows[6]), d.ym)

\* parse_area_data(soup, year_month, logger)
parse_area_data(d) ==
    IF ~d.found \/ Len(d.rows) < 3 THEN <<>>
    ELSE Transpose(DataCells(d.rows[1]), DataCells(d.rows[2]),
                   DataCells(d.rows[3]), d.ym)

ParseDistrict ==
    /\ doc.kind = "district" /\ ~result.applied
    /\ result' = [applied |-> TRUE, records |-> parse_district_data(doc)]
    /\ UNCHANGED <<doc, saveVars, mainVars, fetchVars>>

ParseArea ==
    /\ doc.kind = "area" /\ ~result.applied
    /\ result' = [applied |-> TRUE, records |-> parse_area_data(doc)]
    /\ UNCHANGED <<doc, saveVars, mainVars, fetchVars>>

----------------------------------------------------------------------------
(* parse_daily_data and parse_month_summary *)

\* most tables of a document
MaxTables == 3

\* The title cell of a table: the month title, the day title, both (a table
\* that holds a monthly and a daily table), neither.
TitleTexts == {T("MONTH"), T("DAY"), Txt2("MONTH", "DAY"), T("x")}

Maybe(rows) == {<<>>} \cup {<<r>> : r \in rows}

SignCountRows ==
    {<<T("SIGN_COUNT"), v>> : v \in {Txt2("1", "2"), T("5"), T("0"), T("x")}}
SignAreaRows ==
    {<<T("SIGN_AREA"), v>> :
        v \in {<<"1", ".", "5", " ", "u">>, Txt3("1", ",", "2"), T("x")}}
ResCountRows == {<<T("RES_COUNT"), T("7")>>}
ResAreaRows == {<<T("RES_AREA"), <<"2", ".", "5", "u">>>>}

\* A table of label and value cells: the title row, then the rows present.
FullTables ==
    {<<<<t>>>> \o a \o b \o c \o d :
        t \in TitleTexts, a \in Maybe(SignCountRows), b \in Maybe(SignAreaRows),
        c \in Maybe(ResCountRows), d \in Maybe(ResAreaRows)}

\* The tables of a document of several: the title and the count row.
SmallTables ==
    {<<<<t>>>> \o a :
        t \in TitleTexts \ {T("x")},
        a \in Maybe({<<T("SIGN_COUNT"), v>> : v \in {Txt2("1", "2"), T("5")}})}

TableLists == SeqsUpTo(SmallTables, MaxTables) \cup {<<t>> : t \in FullTables}

DailyDocs == {[kind |-> "daily", tables |-> ts] : ts \in TableLists}
MonthDocs == {[kind |-> "month", tables |-> ts] : ts \in TableLists}

\* pattern.search(table.get_text()): the title occurs in a cell of the table.
TableHas(table, phrase) ==
    \E r \in 1..Len(table) : \E c \in 1..Len(table[r]) : Contains(table[r][c], phrase)

\* What the label and value scan has found so far.
NoData == [has |-> {}, sign |-> 0, sign_area |-> [inf |-> FALSE, v |-> 0],
           res |-> 0, res_area |-> [inf |-> FALSE, v |-> 0], raised |-> FALSE]

\* value.replace('m²', '').replace(' ', '').strip()
AreaValue(value) == Strip(Remove(Remove(value, "u"), " "))

\* The if/elif chain of lines 395-406 (and 495-505) for one label and value:
\* float() of a text that is no number raises ValueError, which only the
\* function's outer except clause catches.
LabelValue(data, label, value) ==
    IF data.raised THEN data
    ELSE IF Contains(label, "SIGN_COUNT") /\ ~ContainsRes(label)
    THEN [data EXCEPT !.has = @ \cup {"sign"}, !.sign = CountOrZero(value)]
    ELSE IF Contains(label, "SIGN_AREA") /\ ~ContainsRes(label)
    THEN LET x == FloatOrZero(AreaValue(value))
         IN IF x.ok
            THEN [data EXCEPT !.has = @ \cup {"sign_area"}, !.sign_area = Number(x)]
            ELSE [data EXCEPT !.raised = TRUE]
    ELSE IF Contains(label, "RES_COUNT")
    THEN [data EXCEPT !.has = @ \cup {"res"}, !.res = CountOrZero(value)]
    ELSE IF Contains(label, "RES_AREA")
    THEN LET x == FloatOrZero(AreaValue(value))
         IN IF x.ok
            THEN [data EXCEPT !.has = @ \cup {"res_area"}, !.res_area = Number(x)]
            ELSE [data EXCEPT !.raised = TRUE]
    ELSE data

\* parse_daily_data, lines 390-392: every cell with the cell after it.
RECURSIVE DailyScanRow(_, _, _)
DailyScanRow(data, cols, i) ==
    IF i >= Len(cols) THEN data
    ELSE DailyScanRow(LabelValue(data, Strip(cols[i]), Strip(cols[i + 1])), cols, i + 1)

RECURSIVE DailyScan(_, _)
DailyScan(data, rows) ==
    IF rows = <<>> THEN data
    ELSE DailyScan(DailyScanRow(data, Head(rows), 1), Tail(rows))

AllFields == {"sign", "sign_area", "res", "res_area"}

\* Lines 408-417: one record, unless nothing was found; df[[...]] raises
\* KeyError when a column is missing, and the outer except clause returns the
\* empty DataFrame.
DailyRecord(data) ==
    IF data.raised THEN <<>>
    ELSE IF data.has = {} THEN <<>>
    ELSE IF data.has # AllFields THEN <<>>
    ELSE <<[date |-> "2026-01-05", sign |-> data.sign, sign_area |-> data.sign_area,
            res |-> data.res, res_area |-> data.res_area]>>

\* daily_tables[0], lines 366-381: the first table with the day title (0: none).
DailyTable(tables) ==
    IF \E i \in 1..Len(tables) : TableHas(tables[i], "DAY")
    THEN CHOOSE i \in 1..Len(tables) :
            /\ TableHas(tables[i], "DAY")
            /\ \A j \in 1..(i - 1) : ~TableHas(tables[j], "DAY")
    ELSE 0

\* parse_daily_data(soup, logger)
parse_daily_data(d) ==
    LET t == DailyTable(d.tables)
    IN IF t = 0 THEN <<>>
       ELSE DailyRecord(DailyScan(NoData, d.tables[t]))

\* Lines 455-467: the count of the first row whose first cell is the sign
\* count label.
RECURSIVE ProvisionalCount(_)
ProvisionalCount(rows) ==
    IF rows = <<>> THEN 0
    ELSE LET cols == Head(rows)
         IN IF /\ Len(cols) >= 2
               /\ Contains(Strip(cols[1]), "SIGN_COUNT")
               /\ ~ContainsRes(Strip(cols[1]))
            THEN CountOrZero(Strip(cols[2]))
            ELSE ProvisionalCount(Tail(rows))

\* Line 449: the month title and not the day title.
Survives(table) == TableHas(table, "MONTH") /\ ~TableHas(table, "DAY")

\* Line 470 with >= for >: the last of the tables with the largest count.
BetterOrEqual(temp_sign_count, max_sign_count) == temp_sign_count >= max_sign_count

\* Line 470: temp_sign_count > max_sign_count
Better(temp_sign_count, max_sign_count) == temp_sign_count > max_sign_count

\* The loop of lines 439-473 over the tables from number i on.
RECURSIVE MonthSelect(_, _, _)
MonthSelect(tables, i, best) ==
    IF i > Len(tables) THEN best
    ELSE IF /\ Survives(tables[i])
            /\ Better(ProvisionalCount(tables[i]), best.max_sign_count)
         THEN MonthSelect(tables, i + 1,
                          [best_table |-> i,
                           max_sign_count |-> ProvisionalCount(tables[i])])
         ELSE MonthSelect(tables, i + 1, best)

NoBest == [best_table |-> 0, max_sign_count |-> 0]

\* Lines 487-505: the first two cells of every row of two cells or more.
RECURSIVE MonthScan(_, _)
MonthScan(data, rows) ==
    IF rows = <<>> THEN data
    ELSE LET cols == Head(rows)
         IN MonthScan(IF Len(cols) >= 2
                      THEN LabelValue(data, Strip(cols[1]), Strip(cols[2]))
                      ELSE data,
                      Tail(rows))

\* Lines 507-516: the record, if a count is positive.
MonthRecord(data) ==
    IF data.raised THEN <<>>
    ELSE IF data.sign > 0 \/ data.res > 0
    THEN <<[month |-> "2025-12", sign |-> data.sign, sign_area |-> data.sign_area,
            res |-> data.res, res_area |-> data.res_area]>>
    ELSE <<>>

\* parse_month_summary(soup, logger)
parse_month_summary(d) ==
    LET best == MonthSelect(d.tables, 1, NoBest)
    IN IF best.best_table = 0 THEN <<>>
       ELSE MonthRecord(MonthScan(NoData, d.tables[best.best_table]))

ParseDaily ==
    /\ doc.kind = "daily" /\ ~result.applied
    /\ result' = [applied |-> TRUE, records |-> parse_daily_data(doc),
                  table |-> DailyTable(doc.tables)]
    /\ UNCHANGED <<doc, saveVars, mainVars, fetchVars>>

ParseMonth ==
    /\ doc.kind = "month" /\ ~result.applied
    /\ result' = [applied |-> TRUE, records |-> parse_month_summary(doc),
                  table |-> MonthSelect(doc.tables, 1, NoBest).best_table]
    /\ UNCHANGED <<doc, saveVars, mainVars, fetchVars>>

Docs == AgencyDocs \cup DistrictDocs \cup AreaDocs \cup DailyDocs \cup MonthDocs

InitParse ==
    /\ SaveIdle
    /\ FetchIdle
    /\ pc = "idle" /\ step = 0 /\ fetched = FALSE /\ year_month = ""
    /\ parsed = {} /\ saved = {}
    /\ dfs = NoDfs /\ rets = NoRets
    /\ stores = NoStores /\ start = NoStores
    /\ sfail = {} /\ iofail = {}
    /\ doc \in Docs
    /\ result = NoResult

NextParse ==
    \/ ParseAgency
    \/ ParseDistrict
    \/ ParseArea
    \/ ParseDaily
    \/ ParseMonth

SpecParse == InitParse /\ [][NextParse]_vars

----------------------------------------------------------------------------
(* The claims about save_to_csv *)

\* The composite key of a stored line, as text.
LineKey(l) == IF "name" \in key_column THEN <<l[1], l[2]>> ELSE <<l[1]>>

StoredKeys(f) == {LineKey(DataRows(f)[j]) : j \in 1..Len(DataRows(f))}

RecordKey(r) == IF "name" \in key_column THEN <<r.period, r.name>> ELSE <<r.period>>

\* The lines a call added after the lines the store held before it.
Appended == SubSeq(file.lines, Len(last.pre.lines) + 1, Len(file.lines))

IsPrefix(s, t) == Len(s) <= Len(t) /\ SubSeq(t, 1, Len(s)) = s

\* C1 (as claimed): saving a non-empty record set twice, the store absent
\* before the first call and the I/O working, returns (len(R), 0) and then
\* (0, len(R)), and the second call leaves the store as it is.
C1_Idempotent ==
    [][(/\ last.called /\ ~last.pre.exists /\ last.df # <<>> /\ last.io = "ok"
        /\ last'.df = last.df /\ last'.io = "ok")
       => (/\ last.ret = <<Len(last.df), 0>>
           /\ last'.ret = <<0, Len(last.df)>>
           /\ file' = file)]_vars

\* C2 (as claimed): no two data rows of the store share a composite key.
C2_StoreKeysUnique ==
    \A i, j \in 1..Len(DataRows(file)) :
        i # j => LineKey(DataRows(file)[i]) # LineKey(DataRows(file)[j])

\* C3 (as claimed): a call on an existing store, the I/O working, appends
\* exactly the input records whose key the store did not hold, in input order.
C3_AppendsExactlyAbsent ==
    (last.called /\ last.pre.exists /\ last.io = "ok")
    => Appended = ToCsvLines(SelectSeq(last.df,
                      LAMBDA r : RecordKey(r) \notin StoredKeys(last.pre)))

\* C4: whatever a call on an existing store does (append, only duplicates,
\* empty record set, failure), the store before it is a prefix of the store
\* after it, and it writes no header line: the header is the first line only.
C4_AppendOnlyFrame ==
    /\ (last.called /\ last.pre.exists)
       => /\ file.exists
          /\ IsPrefix(last.pre.lines, file.lines)
          /\ \A i \in 1..Len(Appended) : Appended[i] # HeaderLine
    /\ file.exists
       => /\ file.lines # <<>>
          /\ file.lines[1] = HeaderLine
          /\ \A i \in 2..Len(file.lines) : file.lines[i] # HeaderLine

\* C4's cases: a call that appended to a store holding rows, and a failed one.
C4_Witness ==
    /\ last.called /\ last.pre.exists /\ last.io = "ok"
    /\ Len(last.pre.lines) > 1
    /\ Len(file.lines) > Len(last.pre.lines)
    /\ last.ret[2] > 0

\* C5 (as claimed): on an existing store, the I/O working, new_count counts
\* the input records whose key is absent from the store, duplicate_count those
\* whose key is present, and the two add up to len(records).
C5_CountsPartition ==
    (last.called /\ last.pre.exists /\ last.io = "ok")
    => /\ last.ret[1] = Cardinality({i \in 1..Len(last.df) :
                            RecordKey(last.df[i]) \notin StoredKeys(last.pre)})
       /\ last.ret[2] = Cardinality({i \in 1..Len(last.df) :
                            RecordKey(last.df[i]) \in StoredKeys(last.pre)})
       /\ last.ret[1] + last.ret[2] = Len(last.df)

----------------------------------------------------------------------------
(* The claim about main *)

\* C6: a run whose fetch succeeded invokes all five strategies and all five
\* save_to_csv calls whatever fails; a failing strategy yields an empty
\* record set; a store whose read or write failed reports (0, 0); a run is
\* aborted only by a fetch failure, with no store touched.
C6_FailureIsolation ==
    /\ pc = "done" => fetched /\ parsed = Strategies /\ saved = Strategies
    /\ \A i \in parsed \cap sfail : dfs[i] = <<>>
    /\ \A i \in saved \cap iofail : rets[i] = <<0, 0>>
    /\ pc = "aborted" => ~fetched /\ parsed = {} /\ saved = {} /\ stores = start
    /\ (fetched /\ pc = "save") => parsed = Strategies /\ saved = 1..(step - 1)
    /\ (fetched /\ pc = "parse") => parsed = 1..(step - 1)

\* C6's case: a finished run in which a strategy failed, a store's read
\* failed and a later store still received its rows.
C6_Witness ==
    /\ pc = "done"
    /\ 1 \in sfail
    /\ \E i, j \in Strategies :
          /\ i < j /\ i \in iofail
          /\ j \notin iofail /\ rets[j][1] > 0

----------------------------------------------------------------------------
(* The claims about the parsers *)

LabelPhrases == {"SIGN_COUNT", "SIGN_AREA", "RES_COUNT", "RES_AREA"}

\* The cells of a table that hold the phrase and have a cell after them.
LabelCells(table, phrase) ==
    {rc \in {<<r, c>> : r \in 1..Len(table), c \in 1..MaxCols + 2} :
        /\ rc[2] < Len(table[rc[1]])
        /\ Contains(table[rc[1]][rc[2]], phrase)}

\* A recognized field label occurs in the table, before a value cell.
HasRecognizedLabel(table) == \E ph \in LabelPhrases : LabelCells(table, ph) # {}

\* The tables with the month title and without the day title.
Survivors == {i \in 1..Len(doc.tables) : Survives(doc.tables[i])}

Prov(i) == ProvisionalCount(doc.tables[i])

\* C7 (as claimed): a table with both titles is never selected; the selected
\* table is the first survivor whose provisional count is the largest of the
\* survivors'; nothing is selected exactly when no table survives.
C7_SelectionAsClaimed ==
    (doc.kind = "month" /\ result.applied)
    => /\ result.table # 0
          => /\ result.table \in Survivors
             /\ \A j \in Survivors : Prov(j) <= Prov(result.table)
             /\ \A j \in Survivors : j < result.table => Prov(j) < Prov(result.table)
       /\ result.table = 0 <=> Survivors = {}

\* C7 (amended): a table with both titles is never selected; a selected table
\* is the first survivor whose provisional count is the largest of the
\* survivors', and that count is positive; nothing is selected exactly when
\* no survivor has a positive provisional count.
C7_Selection ==
    (doc.kind = "month" /\ result.applied)
    => /\ result.table # 0
          => /\ result.table \in Survivors
             /\ ~(TableHas(doc.tables[result.table], "MONTH")
                  /\ TableHas(doc.tables[result.table], "DAY"))
             /\ Prov(result.table) > 0
             /\ \A j \in Survivors : Prov(j) <= Prov(result.table)
             /\ \A j \in Survivors : j < result.table => Prov(j) < Prov(result.table)
       /\ result.table = 0 <=> (\A j \in Survivors : Prov(j) = 0)

\* C7's case: three tables, two survivors with the same count, of which the
\* first is selected, and a table with both titles and a larger count.
C7_Witness ==
    /\ doc.kind = "month" /\ result.applied
    /\ Len(doc.tables) = 3
    /\ result.table \in Survivors
    /\ \E j \in Survivors : j > result.table /\ Prov(j) = Prov(result.table)
    /\ \E k \in 1..3 :
          /\ TableHas(doc.tables[k], "MONTH") /\ TableHas(doc.tables[k], "DAY")
          /\ Prov(k) > Prov(result.table)

\* C8 (as claimed): when a recognized label occurs in the table the
\* Label-Value strategy reads, it returns exactly one record; it returns the
\* empty record set only when no recognized label was found.
C8_OneRecordWhenLabelFound ==
    (doc.kind \in {"daily", "month"} /\ result.applied /\ result.table # 0)
    => /\ HasRecognizedLabel(doc.tables[result.table]) => Len(result.records) = 1
       /\ result.records = <<>> => ~HasRecognizedLabel(doc.tables[result.table])

\* The value cell after the label cell of the phrase, in a table where the
\* phrase labels one cell.
ValueOf(table, phrase) ==
    LET rc == CHOOSE x \in LabelCells(table, phrase) : TRUE
    IN Strip(table[rc[1]][rc[2] + 1])

\* A cell that is no number after stripping the thousands separators, the
\* unit and the blanks.
Malformed(v) ==
    LET x == Strip(Remove(Remove(Remove(v, ","), "u"), " "))
    IN x # <<>> /\ ~IsFloatText(x)

\* C10 (as claimed): a numeric cell that is no number after stripping costs
\* only its own column or field.  In a transposed table with such a cell,
\* every column whose two cells are numbers is emitted; in a label and value
\* table with all four labels whose sign area is such a cell, the record is
\* emitted with the sign count that is a number.
C10_MalformedValueContained ==
    /\ (doc.kind \in {"district", "area"} /\ result.applied /\ doc.found
        /\ Len(doc.rows) >= (IF doc.kind = "district" THEN 6 ELSE 3))
       => LET names == DataCells(doc.rows[1])
              counts == DataCells(doc.rows[2])
              areas == DataCells(doc.rows[3])
          IN \A i, j \in 1..Len(names) :
                (/\ i <= Len(counts) /\ i <= Len(areas)
                 /\ j <= Len(counts) /\ j <= Len(areas)
                 /\ Malformed(counts[j]) \/ Malformed(areas[j])
                 /\ IsFloatText(Remove(counts[i], ","))
                 /\ IsFloatText(Remove(areas[i], ",")))
                => \E k \in 1..Len(result.records) :
                      /\ result.records[k].name = names[i]
                      /\ result.records[k].count = Hundredths(Remove(counts[i], ","))
    /\ (doc.kind \in {"daily", "month"} /\ result.applied /\ result.table # 0)
       => LET table == doc.tables[result.table]
          IN (/\ \A ph \in LabelPhrases : Cardinality(LabelCells(table, ph)) = 1
              /\ IsDigit(ValueOf(table, "SIGN_COUNT"))
              /\ IntOf(ValueOf(table, "SIGN_COUNT")) > 0
              /\ Malformed(ValueOf(table, "SIGN_AREA"))
              /\ ~Malformed(ValueOf(table, "RES_AREA")))
             => /\ Len(result.records) = 1
                /\ result.records[1].sign = IntOf(ValueOf(table, "SIGN_COUNT"))

\* A cell of a transposed table that is a decimal number once the thousands
\* separators and the blanks around it are gone, and its value in hundredths.
C11_WellFormed(t) == IsFloatText(Strip(Remove(t, ",")))

C11_Value(t) == Hundredths(Strip(Remove(t, ",")))

\* The block of the district table that starts at row first: the number of
\* its names when the names, counts and areas rows are equally long after
\* their label cells and every count and area is well formed, else -1.
C11_BlockSize(rows, first) ==
    LET n == Len(rows[first]) - 1
    IN IF /\ n >= 0
          /\ Len(rows[first + 1]) = n + 1 /\ Len(rows[first + 2]) = n + 1
          /\ \A i \in 2..(n + 1) :
                C11_WellFormed(rows[first + 1][i]) /\ C11_WellFormed(rows[first + 2][i])
       THEN n ELSE -1

\* The record the claim expects for column i of the block at row first.
C11_RecordOf(rows, first, i, ym) ==
    [ym |-> ym, name |-> Strip(rows[first][i + 1]),
     count |-> C11_Value(rows[first + 1][i + 1]),
     area |-> [inf |-> FALSE, v |-> C11_Value(rows[first + 2][i + 1])]]

\* C11: parse_district_data on a table of at least 6 rows whose two blocks
\* have names, counts and areas rows of matching lengths n1 and n2 with
\* well-formed values returns n1 + n2 records, those of block 1 in column
\* order and then those of block 2, each with the name, count and area of
\* one column of one block; on a table of fewer than 6 rows it returns no
\* record.
C11_DualBlockTranspose ==
    (doc.kind = "district" /\ result.applied /\ doc.found)
    => /\ Len(doc.rows) < 6 => result.records = <<>>
       /\ Len(doc.rows) >= 6
          => LET n1 == C11_BlockSize(doc.rows, 1)
                 n2 == C11_BlockSize(doc.rows, 4)
             IN (n1 >= 0 /\ n2 >= 0)
                => /\ Len(result.records) = n1 + n2
                   /\ \A i \in 1..n1 :
                         result.records[i] = C11_RecordOf(doc.rows, 1, i, doc.ym)
                   /\ \A i \in 1..n2 :
                         result.records[n1 + i] = C11_RecordOf(doc.rows, 4, i, doc.ym)

\* Two well-formed columns in block 1 and one in block 2 were transposed
\* into three records.
C11_Witness ==
    /\ doc.kind = "district" /\ result.applied /\ doc.found
    /\ Len(doc.rows) >= 6
    /\ C11_BlockSize(doc.rows, 1) >= 2
    /\ C11_BlockSize(doc.rows, 4) >= 1
    /\ Len(result.records) = C11_BlockSize(doc.rows, 1) + C11_BlockSize(doc.rows, 4)

\* The requests so far that failed.
C12_Failures == {i \in 1..Len(outcomes) : ~outcomes[i].ok}

\* What fetch_html has done so far is what the claim allows: no more than
\* MAX_RETRIES requests; still in the loop only after fewer failures and no
\* success; returned with the text of the one successful request, the last
\* one made; raised only after MAX_RETRIES failures; RETRY_DELAY slept for
\* each failure but the MAX_RETRIES-th; and main has moved on only after the
\* end of fetch_html, with its outcome.
C12_RetryState ==
    LET n == Len(outcomes)
    IN /\ n <= MAX_RETRIES
       /\ fstate = "loop" => n < MAX_RETRIES /\ C12_Failures = 1..n
       /\ fstate = "returned"
          => /\ n >= 1 /\ outcomes[n].ok /\ C12_Failures = 1..(n - 1)
             /\ html = outcomes[n].text
       /\ fstate = "raised" => n = MAX_RETRIES /\ C12_Failures = 1..n
       /\ slept = RETRY_DELAY * Cardinality(C12_Failures \ {MAX_RETRIES})
       /\ pc # "idle"
          => /\ fstate \in {"returned", "raised"}
             /\ fetched = (fstate = "returned")
             /\ pc = (IF fstate = "returned" THEN "parse" ELSE "aborted")

\* C12: for every sequence of request outcomes fetch_html ends after at
\* most MAX_RETRIES attempts; it returns the text of the first successful
\* attempt and makes no attempt after it; it raises only after MAX_RETRIES
\* failures in a row; it waits RETRY_DELAY after each failed attempt except
\* the last; and main sees only the final return or exception.
C12_BoundedRetry == []C12_RetryState /\ <>(fstate # "loop")

\* Two requests failed, the third returned the page after two waits, and
\* main went on with it.
C12_Witness ==
    /\ fstate = "returned" /\ Len(outcomes) = MAX_RETRIES
    /\ slept = 2 * RETRY_DELAY
    /\ pc = "parse" /\ fetched

\* C9 (as claimed): in the record set parse_agency_data returns, every
\* sequence number is a positive integer and no two records share the
\* agency name.
C9_AgencyRowsValid ==
    (doc.kind = "agency" /\ result.applied)
    => /\ \A i \in 1..Len(result.records) : result.records[i].seq >= 1
       /\ \A i, j \in 1..Len(result.records) :
             i # j => result.records[i].agency # result.records[j].agency

====
